---- MODULE Spec2Model ----
(***************************************************************************)
(* SDN BLE control-plane bridge (sdn_ble_bridge.py), bridge mode.          *)
(*                                                                         *)
(* One asyncio thread runs main(): connect, run_loop, disconnect.  The two *)
(* notification callbacks are plain (non-async) functions called by the    *)
(* event loop, so a callback starts only while the main task is suspended  *)
(* at an await, and then runs to its return (adb_exec and time.sleep are   *)
(* blocking calls) before the main task can take another step.  The signal *)
(* handler runs between any two steps of the thread.                       *)
(***************************************************************************)
EXTENDS Integers, Sequences, FiniteSets, TLC

\* ------------------------------------------------------------- bounds
\* Most items the peer is allowed to have waiting in pending_commands: a
\* notification is delivered only while the queue holds fewer.
MaxQueue == 2

\* ------------------------------------------------------ program constants
\* time.sleep(2) after a successful "svc bluetooth enable"
BT_WAIT == 2
\* time.sleep(3) after a successful "svc wifi enable"
WIFI_WAIT == 3

SESSION_ID == "ble-bridge"

\* ------------------------------------------------------------- payloads
\* A field that the JSON object does not carry.
Absent == "<absent>"

KnownActions == {"enable_bt", "disable_bt", "enable_wifi", "disable_wifi"}

\* Values of the "action" field the peer sends.
ActionStrings == KnownActions \cup {"reboot"}

ReasonStrings == {"app request"}

\* A notification payload (bytearray): whether it is valid UTF-8, what
\* json.loads makes of the text, and the fields of the object if it is one.
Payloads ==
    {[utf8 |-> FALSE, json |-> "invalid", action |-> Absent, reason |-> Absent],
     [utf8 |-> TRUE, json |-> "invalid", action |-> Absent, reason |-> Absent],
     [utf8 |-> TRUE, json |-> "array", action |-> Absent, reason |-> Absent]}
    \cup
    {[utf8 |-> TRUE, json |-> "object", action |-> a, reason |-> Absent] :
        a \in ActionStrings \cup {Absent}}
    \cup
    {[utf8 |-> TRUE, json |-> "object", action |-> "enable_bt", reason |-> r] :
        r \in ReasonStrings}

\* The telemetry callback only decodes its payload.
TelemetryPayloads == {d \in Payloads : d.json = "invalid"}

NoData == [utf8 |-> FALSE, json |-> "none", action |-> Absent, reason |-> Absent]

\* dict.get(key, default) on the parsed object.
request_get(value, default) == IF value = Absent THEN default ELSE value

\* Fault variant of ParseRequest: any JSON value is taken for an object.
ParseRequestLax(data) ==
    IF data.utf8 /\ data.json # "invalid"
    THEN [ok |-> TRUE,
          action |-> request_get(data.action, "unknown"),
          reason |-> request_get(data.reason, "")]
    ELSE [ok |-> FALSE, action |-> "", reason |-> ""]

\* Lines 205-210 of _on_radio_request_notify: data.decode("utf-8"),
\* json.loads, request.get("action", "unknown"), request.get("reason", "").
\* Any of them raising (bad UTF-8, bad JSON, a value without .get) lands in
\* the except clause: ok = FALSE.
ParseRequest(data) ==
    IF data.utf8 /\ data.json = "object"
    THEN [ok |-> TRUE,
          action |-> request_get(data.action, "unknown"),
          reason |-> request_get(data.reason, "")]
    ELSE [ok |-> FALSE, action |-> "", reason |-> ""]

\* ------------------------------------------------------------- adb_exec
AdbOutcomes == {"ok", "nonzero", "timeout", "spawn_error"}

\* adb_exec returns (success, output); success is returncode == 0, and both
\* except clauses return False.
adb_exec(outcome) == outcome = "ok"

\* --------------------------------------------------- handle_radio_request
\* Fault variant of AdbCommand: the else branch runs a command too.
AdbCommandEager(action) ==
    IF action = "enable_bt" THEN "svc bluetooth enable"
    ELSE IF action = "disable_bt" THEN "svc bluetooth disable"
    ELSE IF action = "enable_wifi" THEN "svc wifi enable"
    ELSE IF action = "disable_wifi" THEN "svc wifi disable"
    ELSE "svc bluetooth disable"

\* The adb command of each branch of handle_radio_request; "" for the else
\* branch, which calls no command.
AdbCommand(action) ==
    IF action = "enable_bt" THEN "svc bluetooth enable"
    ELSE IF action = "disable_bt" THEN "svc bluetooth disable"
    ELSE IF action = "enable_wifi" THEN "svc wifi enable"
    ELSE IF action = "disable_wifi" THEN "svc wifi disable"
    ELSE ""

\* Fault variant of PostWait: the bluetooth wait is one unit short.
PostWaitShort(action, success) ==
    IF action = "enable_bt" /\ success THEN BT_WAIT - 1
    ELSE IF action = "enable_wifi" /\ success THEN WIFI_WAIT
    ELSE 0

\* The time.sleep of each branch of handle_radio_request.
PostWait(action, success) ==
    IF action = "enable_bt" /\ success THEN BT_WAIT
    ELSE IF action = "enable_wifi" /\ success THEN WIFI_WAIT
    ELSE 0

\* Fault variant of Confirmation: a failed enable_bt gets a tag of its own.
ConfirmationByOutcome(action, success) ==
    IF action = "enable_bt" THEN
        IF success
        THEN [action |-> "BT_READY", sessionId |-> SESSION_ID, reason |-> "ADB enable_bt OK"]
        ELSE [action |-> "BT_FAILED", sessionId |-> SESSION_ID, reason |-> "ADB enable_bt FAILED"]
    ELSE IF action = "disable_bt" THEN
        [action |-> "BT_DISABLED", sessionId |-> SESSION_ID,
         reason |-> "ADB disable_bt " \o (IF success THEN "OK" ELSE "FAILED")]
    ELSE IF action = "enable_wifi" THEN
        IF success
        THEN [action |-> "WIFI_READY", sessionId |-> SESSION_ID, reason |-> "ADB enable_wifi OK"]
        ELSE [action |-> "WIFI_READY", sessionId |-> SESSION_ID, reason |-> "ADB enable_wifi FAILED"]
    ELSE IF action = "disable_wifi" THEN
        [action |-> "WIFI_DISABLED", sessionId |-> SESSION_ID,
         reason |-> "ADB disable_wifi " \o (IF success THEN "OK" ELSE "FAILED")]
    ELSE
        [action |-> "UNKNOWN", sessionId |-> SESSION_ID,
         reason |-> "Unknown action: " \o action]

\* The dict returned by each branch of handle_radio_request.
Confirmation(action, success) ==
    IF action = "enable_bt" THEN
        IF success
        THEN [action |-> "BT_READY", sessionId |-> SESSION_ID, reason |-> "ADB enable_bt OK"]
        ELSE [action |-> "BT_READY", sessionId |-> SESSION_ID, reason |-> "ADB enable_bt FAILED"]
    ELSE IF action = "disable_bt" THEN
        [action |-> "BT_DISABLED", sessionId |-> SESSION_ID,
         reason |-> "ADB disable_bt " \o (IF success THEN "OK" ELSE "FAILED")]
    ELSE IF action = "enable_wifi" THEN
        IF success
        THEN [action |-> "WIFI_READY", sessionId |-> SESSION_ID, reason |-> "ADB enable_wifi OK"]
        ELSE [action |-> "WIFI_READY", sessionId |-> SESSION_ID, reason |-> "ADB enable_wifi FAILED"]
    ELSE IF action = "disable_wifi" THEN
        [action |-> "WIFI_DISABLED", sessionId |-> SESSION_ID,
         reason |-> "ADB disable_wifi " \o (IF success THEN "OK" ELSE "FAILED")]
    ELSE
        [action |-> "UNKNOWN", sessionId |-> SESSION_ID,
         reason |-> "Unknown action: " \o action]

\* ------------------------------------------------------- pending_commands
NoCmd == [action |-> "", sessionId |-> "", reason |-> ""]

\* Fault variant of Enqueue: the confirmation is lost.
EnqueueNothing(q, item) == q

\* self.pending_commands.append(confirmation)
Enqueue(q, item) == Append(q, item)

\* Fault variant of PopIndex: pop() instead of pop(0).
PopLast(q) == Len(q)

\* The index (1-based) of the element pending_commands.pop(0) removes.
PopIndex(q) == 1

\* Fault variant of RemoveAt: the item is read but left in the list, so it
\* is handed to send_command again.
RemoveAtKeep(q, i) == q

\* The list pending_commands.pop(i) leaves behind.
RemoveAt(q, i) == [j \in 1..(Len(q) - 1) |-> IF j < i THEN q[j] ELSE q[j + 1]]

\* Fault variant of CanWrite: the guard of send_command is missing.
CanWriteAlways(hasClient, isConnected) == TRUE

\* send_command's guard, negated: self.client and self.client.is_connected
CanWrite(hasClient, isConnected) == hasClient /\ isConnected

\* ------------------------------------------------------------------ state
VARIABLES
    pc,         \* where the main task is: an await it is suspended at, or a statement
    running,    \* the global stop flag
    client,     \* self.client is set (a BleakClient object)
    linkUp,     \* self.client.is_connected
    connected,  \* self.connected
    subResp,    \* start_notify(SDN_RESPONSE_UUID) succeeded
    subRadio,   \* start_notify(SDN_RADIO_REQ_UUID) succeeded
    queue,      \* self.pending_commands
    cmd,        \* run_loop's local cmd while send_command works on it
    txBusy,     \* a write_gatt_char is in flight on the transport
    sendLog,    \* what the last send_command logged
    cb,         \* the frame of the notification callback that is running
    fifo,       \* ghost: the confirmations appended and not yet handed to
                \* send_command, oldest first
    due         \* ghost: the confirmation that was the oldest when cmd was popped

vars == <<pc, running, client, linkUp, connected, subResp, subRadio, queue,
          cmd, txBusy, sendLog, cb, fifo, due>>

session == <<client, linkUp, connected, subResp, subRadio>>
ghost == <<fifo, due>>

IdleFrame ==
    [phase |-> "idle", chan |-> "none", data |-> NoData, action |-> "",
     reason |-> "", success |-> FALSE, execs |-> 0, slept |-> 0,
     sleepLeft |-> 0, conf |-> NoCmd, q0 |-> <<>>]

\* SdnBleController.__init__ and the module-level running = True.
Init ==
    /\ pc = "start"
    /\ running = TRUE
    /\ client = FALSE
    /\ linkUp = FALSE
    /\ connected = FALSE
    /\ subResp = FALSE
    /\ subRadio = FALSE
    /\ queue = <<>>
    /\ cmd = NoCmd
    /\ txBusy = FALSE
    /\ sendLog = "none"
    /\ cb = IdleFrame
    /\ fifo = <<>>
    /\ due = NoCmd

\* The main task is suspended at an await: the event loop may run a callback.
LoopSuspended == pc \in {"sub_resp", "sub_radio", "writing", "sleeping", "closing"}

\* A callback that yielded the thread while it handles a request (an
\* awaited executor or sleep) would leave the event loop free to run anything.
ThreadFreeAlways == TRUE

\* No callback holds the thread: the main task may take its next step.
ThreadFree == cb.phase = "idle"

\* ------------------------------------------------------------ environment
\* signal_handler: running = False.  Signals are handled between any two
\* bytecodes of the main thread.
Signal ==
    /\ pc # "exit"
    /\ running
    /\ running' = FALSE
    /\ UNCHANGED <<pc, session, queue, cmd, txBusy, sendLog, cb, ghost>>

\* The radio link is lost: client.is_connected turns false.  The client
\* learns of it from the event loop, that is while the main task is
\* suspended at an await and no callback holds the thread.
LinkDrop ==
    /\ LoopSuspended
    /\ ThreadFree
    /\ linkUp
    /\ linkUp' = FALSE
    /\ UNCHANGED <<pc, running, client, connected, subResp, subRadio, queue,
                   cmd, txBusy, sendLog, cb, ghost>>

\* ---------------------------------------------------------------- connect
\* connect, lines 225-226: the client is created and client.connect() awaited.
ConnectBegin ==
    /\ pc = "start"
    /\ client' = TRUE
    /\ pc' = "connecting"
    /\ UNCHANGED <<running, linkUp, connected, subResp, subRadio, queue, cmd,
                   txBusy, sendLog, cb, ghost>>

\* connect, lines 226-232: client.connect() raises, or returns with the
\* client not connected (ConnectionError), or returns connected.  main logs
\* a failure and returns.
ConnectEnd(res) ==
    /\ pc = "connecting"
    /\ IF res = "connected"
       THEN /\ linkUp' = TRUE
            /\ connected' = TRUE
            /\ pc' = "sub_resp"
       ELSE /\ pc' = "exit"
            /\ UNCHANGED <<linkUp, connected>>
    /\ UNCHANGED <<running, client, subResp, subRadio, queue, cmd, txBusy, sendLog, cb, ghost>>

\* A start_notify failure that left connect as an exception would reach
\* main's except clause, which logs it and returns.
AfterSubscribeRaises(ok, next) == IF ok THEN next ELSE "exit"

\* connect, lines 242-252: each start_notify sits in its own try whose except
\* clause only logs a warning, so connect goes on to its next statement
\* whether the subscription succeeded or not.
AfterSubscribe(ok, next) == next

\* connect, lines 242-246: start_notify on the response characteristic.
SubscribeResponse(ok) ==
    /\ pc = "sub_resp"
    /\ ThreadFree
    /\ ok => linkUp
    /\ subResp' = ok
    /\ pc' = AfterSubscribe(ok, "sub_radio")
    /\ UNCHANGED <<running, client, linkUp, connected, subRadio, queue, cmd,
                   txBusy, sendLog, cb, ghost>>

\* connect, lines 248-252: start_notify on the radio-request characteristic;
\* main then calls run_loop.
SubscribeRadio(ok) ==
    /\ pc = "sub_radio"
    /\ ThreadFree
    /\ ok => linkUp
    /\ subRadio' = ok
    /\ pc' = AfterSubscribe(ok, "check")
    /\ UNCHANGED <<running, client, linkUp, connected, subResp, queue, cmd,
                   txBusy, sendLog, cb, ghost>>

\* --------------------------------------------------------------- run_loop
\* A loop that tested the link the wrong way round would stop at once on a
\* live link.
LoopConditionNegated(run, hasClient, isConnected) ==
    run /\ hasClient /\ ~isConnected

\* run_loop, line 277: while running and self.client and
\* self.client.is_connected.
LoopCondition(run, hasClient, isConnected) ==
    run /\ hasClient /\ isConnected

\* run_loop, line 277: the outer while condition.
LoopCheck ==
    /\ pc = "check"
    /\ ThreadFree
    /\ pc' = IF LoopCondition(running, client, linkUp)
             THEN "drain" ELSE "terminated"
    /\ UNCHANGED <<running, session, queue, cmd, txBusy, sendLog, cb, ghost>>

\* An inner while that also looked at the stop flag would leave items
\* behind when the flag is set during a pass.
DrainConditionStopAware(q, run) == q # <<>> /\ run

\* An inner while that tested for more than one item would never send a
\* lone confirmation.
DrainConditionOffByOne(q, run) == Len(q) > 1

\* run_loop, line 279: while self.pending_commands.  The stop flag is not
\* part of the test.
DrainCondition(q, run) == q # <<>>

\* run_loop, lines 279-281: the inner while finds an item, pops it and
\* calls send_command with it.
DrainPop ==
    /\ pc = "drain"
    /\ ThreadFree
    /\ DrainCondition(queue, running)
    /\ cmd' = queue[PopIndex(queue)]
    /\ queue' = RemoveAt(queue, PopIndex(queue))
    /\ due' = IF fifo # <<>> THEN Head(fifo) ELSE NoCmd
    /\ fifo' = IF fifo # <<>> THEN Tail(fifo) ELSE fifo
    /\ pc' = "send"
    /\ UNCHANGED <<running, session, txBusy, sendLog, cb>>

\* run_loop, lines 279 and 283: the inner while finds the queue empty and
\* the task awaits asyncio.sleep(0.5).
DrainDone ==
    /\ pc = "drain"
    /\ ThreadFree
    /\ ~DrainCondition(queue, running)
    /\ pc' = "sleeping"
    /\ UNCHANGED <<running, session, queue, cmd, txBusy, sendLog, cb, ghost>>

\* send_command, lines 256-267: not connected, log and return; otherwise
\* encode the command and await write_gatt_char.
SendCommand ==
    /\ pc = "send"
    /\ ThreadFree
    /\ IF CanWrite(client, linkUp)
       THEN /\ txBusy' = TRUE
            /\ pc' = "writing"
            /\ UNCHANGED <<cmd, due, sendLog>>
       ELSE /\ pc' = "drain"
            /\ cmd' = NoCmd
            /\ due' = NoCmd
            /\ sendLog' = "not_connected"
            /\ UNCHANGED txBusy
    /\ UNCHANGED <<running, session, queue, cb, fifo>>

\* send_command, lines 263-270: the write returns, or raises and the
\* exception is logged; either way control is back at the inner while.
WriteEnd(ok) ==
    /\ pc = "writing"
    /\ ThreadFree
    /\ ok => linkUp
    /\ txBusy' = FALSE
    /\ sendLog' = IF ok THEN "sent" ELSE "write_error"
    /\ cmd' = NoCmd
    /\ due' = NoCmd
    /\ pc' = "drain"
    /\ UNCHANGED <<running, session, queue, cb, fifo>>

\* run_loop, line 283: asyncio.sleep(0.5) returns.
Wake ==
    /\ pc = "sleeping"
    /\ ThreadFree
    /\ pc' = "check"
    /\ UNCHANGED <<running, session, queue, cmd, txBusy, sendLog, cb, ghost>>

\* ------------------------------------------------------------- disconnect
\* A disconnect that reset the session would drop what is still queued.
PendingCleared(q) == <<>>

\* disconnect, lines 287-295: pending_commands is not named anywhere in it;
\* what is queued stays queued.
PendingAfterDisconnect(q) == q

\* main's finally and disconnect, lines 289-291 and 295.
DisconnectBegin ==
    /\ pc = "terminated"
    /\ ThreadFree
    /\ IF client /\ linkUp
       THEN /\ pc' = "closing"
            /\ UNCHANGED <<connected, queue>>
       ELSE /\ connected' = FALSE
            /\ queue' = PendingAfterDisconnect(queue)
            /\ pc' = "exit"
    /\ UNCHANGED <<running, client, linkUp, subResp, subRadio, cmd,
                   txBusy, sendLog, cb, ghost>>

\* A close error that left disconnect would skip the assignment after it.
ConnectedAfterCloseRaises(ok, was) == IF ok THEN FALSE ELSE was

\* disconnect, lines 291-295: except Exception: pass swallows a close
\* error, so self.connected = False runs whatever the close did.
ConnectedAfterClose(ok, was) == FALSE

\* disconnect, lines 291-295: client.disconnect() returns or raises (the
\* exception is swallowed), then self.connected = False.
DisconnectEnd(ok) ==
    /\ pc = "closing"
    /\ ThreadFree
    /\ linkUp' = IF ok THEN FALSE ELSE linkUp
    /\ connected' = ConnectedAfterClose(ok, connected)
    /\ pc' = "exit"
    /\ queue' = PendingAfterDisconnect(queue)
    /\ UNCHANGED <<running, client, subResp, subRadio, cmd, txBusy, sendLog, cb, ghost>>

\* -------------------------------------------------- notification callbacks
\* Without the except clause the exception would leave the callback and
\* unwind into the BLE stack that called it.
ExceptPhaseEscapes == "raised"

\* _on_response_notify, lines 196-197, and _on_radio_request_notify, lines
\* 218-219: except Exception logs the error and the callback returns.
ExceptPhase == "ret"

\* _on_response_notify: decode the payload and log it; a decode error is
\* caught and logged.  Nothing of the session is touched.
ResponseNotify(data) ==
    /\ LoopSuspended
    /\ ThreadFree
    /\ linkUp
    /\ subResp
    /\ cb' = [IdleFrame EXCEPT
                 !.phase = IF data.utf8 THEN "ret" ELSE ExceptPhase,
                 !.chan = "response", !.data = data, !.q0 = queue]
    /\ UNCHANGED <<pc, running, session, queue, cmd, txBusy, sendLog, ghost>>

\* _on_radio_request_notify, lines 204-213 and 218-219: decode and parse the
\* payload; on any exception log it and return, otherwise call
\* handle_radio_request(action, reason).
RadioNotify(data) ==
    /\ LoopSuspended
    /\ ThreadFree
    /\ linkUp
    /\ subRadio
    /\ Len(queue) < MaxQueue
    /\ LET req == ParseRequest(data)
       IN cb' = [IdleFrame EXCEPT
                    !.phase = IF req.ok THEN "handle" ELSE ExceptPhase,
                    !.chan = "radio",
                    !.data = data,
                    !.action = req.action,
                    !.reason = req.reason,
                    !.q0 = queue]
    /\ UNCHANGED <<pc, running, session, queue, cmd, txBusy, sendLog, ghost>>

\* handle_radio_request, lines 115-144: the branch on action.  A known
\* action starts its adb command; the else branch returns UNKNOWN at once.
HandleDispatch ==
    /\ cb.phase = "handle"
    /\ IF AdbCommand(cb.action) # ""
       THEN cb' = [cb EXCEPT !.phase = "adb", !.execs = @ + 1]
       ELSE cb' = [cb EXCEPT !.phase = "append",
                             !.conf = Confirmation(cb.action, FALSE)]
    /\ UNCHANGED <<pc, running, session, queue, cmd, txBusy, sendLog, ghost>>

\* adb_exec returns to handle_radio_request, which either goes to its
\* time.sleep or returns the confirmation.
AdbReturn(outcome) ==
    /\ cb.phase = "adb"
    /\ LET success == adb_exec(outcome)
           wait == PostWait(cb.action, success)
       IN IF wait > 0
          THEN cb' = [cb EXCEPT !.phase = "sleep", !.success = success,
                                !.sleepLeft = wait]
          ELSE cb' = [cb EXCEPT !.phase = "append", !.success = success,
                                !.conf = Confirmation(cb.action, success)]
    /\ UNCHANGED <<pc, running, session, queue, cmd, txBusy, sendLog, ghost>>

\* One time unit passes while the callback is blocked in time.sleep.
Tick ==
    /\ cb.phase = "sleep"
    /\ cb.sleepLeft > 0
    /\ cb' = [cb EXCEPT !.sleepLeft = @ - 1, !.slept = @ + 1]
    /\ UNCHANGED <<pc, running, session, queue, cmd, txBusy, sendLog, ghost>>

\* time.sleep returns and handle_radio_request returns the confirmation.
SleepReturn ==
    /\ cb.phase = "sleep"
    /\ cb.sleepLeft = 0
    /\ cb' = [cb EXCEPT !.phase = "append",
                        !.conf = Confirmation(cb.action, cb.success)]
    /\ UNCHANGED <<pc, running, session, queue, cmd, txBusy, sendLog, ghost>>

\* _on_radio_request_notify, line 216.
AppendConfirmation ==
    /\ cb.phase = "append"
    /\ queue' = Enqueue(queue, cb.conf)
    /\ fifo' = Append(fifo, cb.conf)
    /\ cb' = [cb EXCEPT !.phase = "ret"]
    /\ UNCHANGED <<pc, running, session, cmd, txBusy, sendLog, due>>

\* The callback returns to the event loop.
CallbackReturn ==
    /\ cb.phase = "ret"
    /\ cb' = IdleFrame
    /\ UNCHANGED <<pc, running, session, queue, cmd, txBusy, sendLog, ghost>>

\* ------------------------------------------------------------ specification
MainStep ==
    \/ ConnectBegin
    \/ \E res \in {"raised", "not_connected", "connected"} : ConnectEnd(res)
    \/ \E ok \in BOOLEAN : SubscribeResponse(ok)
    \/ \E ok \in BOOLEAN : SubscribeRadio(ok)
    \/ LoopCheck
    \/ DrainPop
    \/ DrainDone
    \/ SendCommand
    \/ \E ok \in BOOLEAN : WriteEnd(ok)
    \/ Wake
    \/ DisconnectBegin
    \/ \E ok \in BOOLEAN : DisconnectEnd(ok)

CallbackStep ==
    \/ HandleDispatch
    \/ \E outcome \in AdbOutcomes : AdbReturn(outcome)
    \/ Tick
    \/ SleepReturn
    \/ AppendConfirmation
    \/ CallbackReturn

Next ==
    \/ Signal
    \/ LinkDrop
    \/ \E data \in TelemetryPayloads : ResponseNotify(data)
    \/ \E data \in Payloads : RadioNotify(data)
    \/ MainStep
    \/ CallbackStep

Spec == Init /\ [][Next]_vars

\* The event loop keeps running whatever is runnable.  A callback blocks
\* the thread until it returns (weak fairness).  The main task is resumed
\* from the loop's FIFO ready queue, so callbacks that keep arriving cannot
\* starve it (strong fairness).  The peer, the radio link and signals owe
\* nothing.
FairSpec == Spec /\ SF_vars(MainStep) /\ WF_vars(CallbackStep)

\* ------------------------------------------------------------- properties
\* The radio-request callback was entered with a payload that decodes and
\* parses into an object.
RadioObject ==
    /\ cb.chan = "radio"
    /\ cb.data.utf8
    /\ cb.data.json = "object"

\* The action handle_radio_request is called with for that payload.
GivenAction == IF cb.data.action = Absent THEN "unknown" ELSE cb.data.action

\* C1: a radio-request notification whose payload parses into an object has
\* appended exactly one Confirmation when the callback returns: the queue is
\* one longer than when the callback was entered, and it is no longer at any
\* earlier point of the callback.
C1_ExactlyOneConfirmation ==
    RadioObject =>
        /\ cb.phase = "ret" => Len(queue) = Len(cb.q0) + 1
        /\ cb.phase \in {"handle", "adb", "sleep", "append"} => Len(queue) = Len(cb.q0)

C1_Witness ==
    /\ RadioObject
    /\ cb.phase = "ret"
    /\ cb.data.action = "reboot"
    /\ Len(cb.q0) = 1
    /\ Len(queue) = 2

\* C2: an item leaves pending_commands only while the transport link is
\* connected.
C2_DrainOnlyWhileConnected == [][Len(queue') < Len(queue) => linkUp]_vars

\* C3: items are handed to send_command in the order in which they were
\* appended, whatever callbacks ran in between (the queue always equals the
\* appended-and-not-yet-handed confirmations in append order, and the item
\* in send_command's hands is the one that was the oldest), and the queue is
\* empty when a drain pass completes.
C3_FifoAndEmptyAfterDrain ==
    /\ [](queue = fifo /\ (pc \in {"send", "writing"} => cmd = due))
    /\ [][(pc = "drain" /\ pc' = "sleeping") => queue' = <<>>]_vars

C3_Witness ==
    /\ pc = "writing"
    /\ cmd = due
    /\ cmd.action = "BT_READY"
    /\ Len(queue) = 2
    /\ queue[1].action = "UNKNOWN"
    /\ queue[2].action = "WIFI_DISABLED"
    /\ cb.phase = "ret"

\* C4: for the four known actions and both executor outcomes
\* handle_radio_request returns the Confirmation of the dispatch table: the
\* tag of the action whatever the outcome, reason "ADB <action> OK" or
\* "ADB <action> FAILED", sessionId "ble-bridge"; and that is what is queued.
C4_DispatchTable ==
    (RadioObject /\ GivenAction \in KnownActions /\ cb.phase \in {"append", "ret"}) =>
        LET tag == CASE GivenAction = "enable_bt" -> "BT_READY"
                     [] GivenAction = "disable_bt" -> "BT_DISABLED"
                     [] GivenAction = "enable_wifi" -> "WIFI_READY"
                     [] GivenAction = "disable_wifi" -> "WIFI_DISABLED"
            expected == [action |-> tag,
                         sessionId |-> "ble-bridge",
                         reason |-> "ADB " \o GivenAction \o
                                    (IF cb.success THEN " OK" ELSE " FAILED")]
        IN /\ cb.conf = expected
           /\ cb.execs = 1
           /\ cb.phase = "ret" => (queue # <<>> /\ queue[Len(queue)] = expected)

C4_Witness ==
    /\ RadioObject
    /\ cb.phase = "ret"
    /\ cb.data.action = "enable_wifi"
    /\ ~cb.success
    /\ queue # <<>>
    /\ queue[Len(queue)] = [action |-> "WIFI_READY", sessionId |-> "ble-bridge",
                            reason |-> "ADB enable_wifi FAILED"]

\* C5: for an action outside the four known ones, the default "unknown" of
\* an absent field included, handle_radio_request returns {UNKNOWN,
\* "ble-bridge", "Unknown action: <action>"} and adb_exec is not called.
C5_UnknownAction ==
    (RadioObject /\ GivenAction \notin KnownActions) =>
        /\ cb.execs = 0
        /\ cb.phase # "adb"
        /\ cb.phase \in {"append", "ret"} =>
              cb.conf = [action |-> "UNKNOWN", sessionId |-> "ble-bridge",
                         reason |-> "Unknown action: " \o GivenAction]

C5_Witness ==
    /\ RadioObject
    /\ cb.phase = "ret"
    /\ cb.data.action = Absent
    /\ cb.execs = 0
    /\ queue # <<>>
    /\ queue[Len(queue)].reason = "Unknown action: unknown"

\* C6: a malformed radio-request payload (not UTF-8, not JSON, or JSON that
\* is not an object) yields no Confirmation and no adb_exec call: the
\* callback goes straight to its return with pending_commands as it was.
C6_MalformedDropped ==
    (cb.chan = "radio" /\ ~(cb.data.utf8 /\ cb.data.json = "object")) =>
        /\ cb.phase = "ret"
        /\ queue = cb.q0
        /\ cb.execs = 0
        /\ cb.conf = NoCmd

C6_Witness ==
    /\ cb.chan = "radio"
    /\ cb.phase = "ret"
    /\ cb.data.utf8
    /\ cb.data.json = "array"
    /\ Len(queue) = 1
    /\ queue = cb.q0

\* C7 as claimed: every enable action is followed by its post-wait (2 time
\* units for enable_bt, 3 for enable_wifi) before handle_radio_request
\* returns; disable and unknown actions are followed by none.
C7_EnableAlwaysWaits ==
    (RadioObject /\ cb.phase \in {"append", "ret"}) =>
        cb.slept = (IF GivenAction = "enable_bt" THEN 2
                    ELSE IF GivenAction = "enable_wifi" THEN 3
                    ELSE 0)

\* C7 amended: the post-wait follows an enable action whose adb command
\* succeeded (2 time units for enable_bt, 3 for enable_wifi) and the
\* Confirmation is not queued before it has elapsed; a failed enable, a
\* disable and an unknown action are followed by no wait.
C7_WaitAfterSuccessfulEnable ==
    RadioObject =>
        /\ cb.phase \in {"append", "ret"} =>
              cb.slept = (IF GivenAction = "enable_bt" /\ cb.success THEN 2
                          ELSE IF GivenAction = "enable_wifi" /\ cb.success THEN 3
                          ELSE 0)
        /\ cb.phase = "sleep" =>
              /\ queue = cb.q0
              /\ cb.success
              /\ GivenAction \in {"enable_bt", "enable_wifi"}

C7_Witness ==
    /\ RadioObject
    /\ cb.phase = "ret"
    /\ cb.data.action = "enable_bt"
    /\ cb.success
    /\ cb.slept = 2
    /\ queue = Append(cb.q0, [action |-> "BT_READY", sessionId |-> "ble-bridge",
                              reason |-> "ADB enable_bt OK"])

\* C8: send_command called with no client or with the link down is a no-op:
\* it returns to run_loop without a write on the transport and leaves the
\* connected flag and pending_commands as they were.
C8_SendNoOpWhenDown ==
    [][(pc = "send" /\ (~client \/ ~linkUp) /\ pc' # "send") =>
           /\ pc' = "drain"
           /\ ~txBusy'
           /\ sendLog' = "not_connected"
           /\ connected' = connected
           /\ queue' = queue]_vars

C8_Witness ==
    /\ pc = "drain"
    /\ sendLog = "not_connected"
    /\ ~linkUp
    /\ ~txBusy
    /\ connected
    /\ queue # <<>>

RunLoopActive == pc \in {"check", "drain", "send", "writing", "sleeping"}

\* C9: once the stop flag is set or the link has dropped, run_loop
\* eventually terminates.
C9_LoopTerminates ==
    (RunLoopActive /\ (~running \/ ~linkUp)) ~> ~RunLoopActive

\* C10: self.connected is true only while the transport link is up: it does
\* not stay true once the link has dropped.
C10_ConnectedTracksLink == connected => linkUp

\* A drain pass of run_loop is in progress: the inner while has popped an
\* item and has not yet found the queue empty.
MidPass == pc \in {"send", "writing"}

\* C11: the drain is atomic with respect to enqueue: a pass removes exactly
\* the items queued when it started, so no append to pending_commands takes
\* effect while a pass is in progress.
C11_DrainAtomic == [][Len(queue') > Len(queue) => ~MidPass]_vars

\* A callback frame is on the thread / a radio-request is being handled.
InCallback == cb.phase # "idle"
Handling == cb.chan = "radio" /\ cb.phase \in {"handle", "adb", "sleep", "append"}

\* C12: at most one external command is in flight, and a radio-request is
\* handled to the end (executor, post-wait, enqueue) before anything else
\* runs: while a callback is on the thread the run loop takes no step, and
\* until the request is enqueued no notification is dispatched, so the frame
\* keeps its request and only moves forward.
C12_HandledToCompletion ==
    /\ [](cb.execs <= 1 /\ (cb.phase = "adb" => cb.execs = 1))
    /\ [][InCallback =>
            /\ pc' = pc /\ cmd' = cmd /\ txBusy' = txBusy /\ sendLog' = sendLog
            /\ Len(queue') >= Len(queue)]_vars
    /\ [][Handling =>
            /\ cb'.chan = "radio" /\ cb'.data = cb.data
            /\ cb'.phase # "idle" /\ (cb'.phase = "handle" => cb' = cb)
            /\ cb'.execs >= cb.execs]_vars

\* A write is awaited by run_loop while the callback sits in its post-wait
\* after a successful executor call.
C12_Witness ==
    /\ pc = "writing" /\ txBusy
    /\ cb.phase = "sleep" /\ cb.execs = 1 /\ cb.success
    /\ queue # <<>>

\* C13: a subscription failure does not abort connect: once the transport
\* session is established the session is connected, and each start_notify,
\* failed or not, is followed by the next statement of connect and then by
\* run_loop, with connected still true.
C13_SubscribeFailureTolerated ==
    /\ [](pc \in {"sub_resp", "sub_radio", "check"} => connected /\ client)
    /\ [][(pc = "sub_resp" /\ pc' # pc) => (pc' = "sub_radio" /\ connected')]_vars
    /\ [][(pc = "sub_radio" /\ pc' # pc) => (pc' = "check" /\ connected')]_vars

\* connect has returned with both subscriptions failed on a live link.
C13_Witness ==
    pc = "check" /\ ~subResp /\ ~subRadio /\ connected /\ linkUp

\* run_loop has returned and main has not finished disconnect yet.
LoopEnded == pc \in {"terminated", "closing"}

\* C14 as stated: after a successful connect, run_loop ends, and disconnect
\* is reached, only if the stop flag has been set.
C14_EndsOnlyOnStop == LoopEnded => ~running

\* C14, amended: after a successful connect, run_loop ends, and disconnect
\* is reached, only if the stop flag has been set or the link was found down
\* at the loop test.
C14_EndsOnlyOnStopOrDrop ==
    /\ pc = "terminated" => (~running \/ ~linkUp)
    /\ pc = "closing" => ~running

\* run_loop has ended on a dropped link with the stop flag never set.
C14_Witness == pc = "terminated" /\ running /\ ~linkUp /\ connected

\* The phases of a callback that is running or has returned normally.
CallbackPhases == {"idle", "handle", "adb", "sleep", "append", "ret"}

\* C15: no error escapes a notification callback: whatever the payload, on
\* either channel, and whatever the executor outcome, the callback is in one
\* of its own phases, can always take its next step up to its return, and
\* leaves the session connected and the run loop where it was.
C15_NoErrorEscapes ==
    /\ [](cb.phase \in CallbackPhases /\ (InCallback => ENABLED CallbackStep))
    /\ [][InCallback =>
            /\ connected' = connected /\ linkUp' = linkUp /\ client' = client
            /\ pc' = pc
            /\ (cb.phase = "ret" => cb' = IdleFrame \/ cb' = cb)]_vars

\* The radio-request callback is about to return after an undecodable
\* payload, the session still connected and run_loop still in its sleep.
C15_Witness ==
    /\ cb.phase = "ret" /\ cb.chan = "radio" /\ ~cb.data.utf8
    /\ connected /\ linkUp /\ pc = "sleeping"

\* C16: disconnect never raises and always leaves connected false: main
\* never ends with the session marked connected; when run_loop has ended
\* disconnect is the next step and can always be taken; on a link that is
\* already down it only clears the flag; and the close, failed or not, is
\* followed by the flag cleared and the end of main.
C16_DisconnectAlwaysCompletes ==
    /\ [](pc = "exit" => ~connected)
    /\ [](pc = "terminated" => ENABLED DisconnectBegin)
    /\ [](pc = "closing" /\ ~InCallback =>
              ENABLED DisconnectEnd(TRUE) /\ ENABLED DisconnectEnd(FALSE))
    /\ [][(pc = "terminated" /\ pc' # pc) =>
            \/ pc' = "closing" /\ linkUp
            \/ /\ pc' = "exit" /\ ~linkUp /\ ~connected'
               /\ linkUp' = linkUp /\ client' = client /\ txBusy' = txBusy]_vars
    /\ [][(pc = "closing" /\ pc' # pc) => (pc' = "exit" /\ ~connected')]_vars

\* main has ended after a transport close that failed: the link is still
\* up and the session is marked disconnected.
C16_Witness == pc = "exit" /\ linkUp /\ ~connected /\ client

\* C17: single producer, single consumer: the queue changes only by the
\* radio-request callback appending one item or by run_loop's inner while
\* removing one; connect, send_command, disconnect and the telemetry
\* callback leave it as it is, and the telemetry callback never runs the
\* executor.
C17_SingleProducerConsumer ==
    /\ [][queue' # queue =>
            \/ /\ cb.chan = "radio" /\ cb.phase = "append"
               /\ Len(queue') = Len(queue) + 1
               /\ pc' = pc
            \/ /\ pc = "drain" /\ pc' = "send" /\ ~InCallback
               /\ Len(queue') = Len(queue) - 1]_vars
    /\ [](cb.chan = "response" => cb.execs = 0 /\ cb.conf = NoCmd /\ queue = cb.q0)

\* main has ended through disconnect with a confirmation still queued.
C17_Witness == pc = "exit" /\ ~connected /\ queue # <<>>

\* C18: the stop flag is read at the outer loop test only: with the flag
\* set during a drain pass, the pass still goes on, it is left only for the
\* sleep and only with the queue empty, and while items are queued the next
\* one can be popped and handed to send_command.
C18_StopNotReadMidDrain ==
    /\ [][(~running /\ pc \in {"drain", "send", "writing"}) =>
            \/ pc' \in {"drain", "send", "writing"}
            \/ pc' = "sleeping" /\ queue' = <<>>]_vars
    /\ [](~running /\ pc = "drain" /\ queue # <<>> => ENABLED DrainPop)

\* The stop flag was set during a pass (a pass never starts with it set),
\* an item has just been popped for send_command and another is queued.
C18_Witness == ~running /\ pc = "send" /\ cmd # NoCmd /\ queue # <<>> /\ linkUp

\* send_command returns to the inner while.
SendReturns == pc \in {"send", "writing"} /\ pc' = "drain"

\* C19: a queued confirmation is handed to the transport at most once: it
\* has left the queue when send_command gets it, and when send_command
\* returns, written, failed or skipped on a dead link, the queue is as it
\* was (nothing re-enqueued), the item is dropped, and the inner while goes
\* on with the items that follow.
C19_AtMostOnce ==
    /\ [][(pc = "drain" /\ pc' = "send") =>
            (cmd' = Head(queue) /\ queue' = Tail(queue))]_vars
    /\ [][(pc \in {"send", "writing"} /\ pc' # pc) =>
            (pc' \in {"writing", "drain"} /\ queue' = queue)]_vars
    /\ [][SendReturns => (cmd' = NoCmd /\ queue' = queue /\ fifo' = fifo)]_vars
    /\ [](pc = "drain" /\ queue # <<>> => ENABLED DrainPop)

\* After a write that raised, the next item is being written on a live link.
C19_Witness ==
    sendLog = "write_error" /\ pc = "writing" /\ cmd # NoCmd /\ linkUp

\* C20: while run_loop is running, the link stays up and the stop flag is
\* not set, a queued confirmation does not stay queued: the oldest one is
\* eventually popped off the queue and handed to send_command, and so, the
\* queue being first-in first-out, is every one behind it in its turn.  The
\* loop's steps are taken fairly (FairSpec).
C20_QueuedEventuallySent ==
    (RunLoopActive /\ queue # <<>>)
        ~> (\/ pc = "send" /\ cmd # NoCmd /\ cmd = due /\ queue = fifo
            \/ ~linkUp
            \/ ~running)

\* On a live link with the stop flag clear, the item queued first has just
\* been popped for send_command while another waits behind it.
C20_Witness ==
    /\ pc = "send" /\ cmd # NoCmd /\ cmd = due /\ queue = fifo
    /\ running /\ linkUp /\ queue # <<>> /\ sendLog = "sent"

====
